---- MODULE Spec2Model ----
(***************************************************************************)
(* A model of fixed_free_list (src/src/lib.rs): FixedFreeList<T, N>, a     *)
(* fixed-capacity slot allocator whose cells are an untagged union of a    *)
(* value and a free-chain link.                                            *)
(*                                                                         *)
(* Values of type T are modelled as objects with an identity: the i-th     *)
(* value ever created by the caller is the number i (1, 2, ...).  Each     *)
(* object carries a teardown counter, which is what DropCounted counts in  *)
(* test_drop.                                                              *)
(***************************************************************************)
EXTENDS Integers, Sequences, FiniteSets, TLC

\* Largest capacity N a container is constructed with.
MaxN == 3
\* Number of values the caller creates in one run (offered to alloc or
\* written through get_mut).
MaxValues == 4

VARIABLES
    N,          \* the const generic capacity N of FixedFreeList<T, N>
    needs_drop, \* mem::needs_drop::<T>(): whether T has teardown logic
    self,       \* the struct: [next, high, data]
    alive,      \* FALSE once the container has been destroyed (Drop::drop)
    live,       \* caller's view: key -> value, for keys allocated and not freed
    objs,       \* objs[v]: how value v entered the program and how often it was torn down
    last,       \* the call made last, with its argument and its result
    held,       \* the ArenaKey handles a SafeFixedFreeList's caller holds, each
                \* [index, value]: the slot it names and the value it was given for;
                \* likewise the usize keys a caller of the base list counts as live
    run         \* [from, n]: n alloc calls, and nothing else that writes, were made
                \* since construction (from = "new") or since clear (from = "clear");
                \* from = "none" after a free or a write through get_mut

vars == <<N, needs_drop, self, alive, live, objs, last, run, held>>

----------------------------------------------------------------------------
(* Cells: union Block<T, N> { value, next } inside MaybeUninit.  The kind   *)
(* is not stored by the program; it records which field was written last.   *)

Uninit == [kind |-> "uninit", value |-> 0, next |-> 0]

ValueCell(v) == [kind |-> "value", value |-> v, next |-> 0]

NextCell(n) == [kind |-> "next", value |-> 0, next |-> n]

\* assume_init_ref().next: a link if the cell holds one; reading another
\* field of the union or uninitialized memory may give any usize (values
\* above N behave like N + 1 everywhere).
ReadNext(c) == IF c.kind = "next" THEN {c.next} ELSE 0..(N + 1)

\* assume_init().value: the value if the cell holds one; otherwise any
\* object, or 0 for bits that are no valid T.
ReadValue(c) == IF c.kind = "value" THEN {c.value} ELSE 0..MaxValues

\* The link the free-chain walks follow out of cell i.
LinkOf(s, i) == IF s.data[i].kind = "next" THEN s.data[i].next ELSE N

\* new() that starts the chain's head at 0 instead of the sentinel N.
new_next_zero == [next |-> 0, high |-> 0, data |-> [i \in 0..(N - 1) |-> Uninit]]

\* FixedFreeList::new
new == [next |-> N, high |-> 0, data |-> [i \in 0..(N - 1) |-> Uninit]]

\* The free-chain walk shared by is_free, clear and Debug::fmt:
\* `let mut next = self.next; while next < N { ...; next = data[next].next }`,
\* cut after `fuel` iterations.
RECURSIVE Walk(_, _, _)
Walk(s, n, fuel) ==
    IF n >= N \/ fuel = 0 THEN <<>>
    ELSE <<n>> \o Walk(s, LinkOf(s, n), fuel - 1)

FreeChain(s) == Walk(s, s.next, N + 1)

Range(f) == {f[i] : i \in DOMAIN f}

\* alloc that bumps the high-water mark for a reused slot as well.
alloc_bump_always(s, value) ==
    IF s.next < N
    THEN {[self |-> [s EXCEPT !.next = n, !.high = s.high + 1,
                              !.data[s.next] = ValueCell(value)],
           ret |-> {s.next}, dropped |-> {}] : n \in ReadNext(s.data[s.next])}
    ELSE IF s.high >= N
         THEN {[self |-> s, ret |-> {}, dropped |-> {value}]}
         ELSE {[self |-> [s EXCEPT !.high = s.high + 1,
                                   !.data[s.high] = ValueCell(value)],
                ret |-> {s.high}, dropped |-> {}]}

\* alloc that, reusing a slot, ends the chain instead of reading its link.
alloc_skip_link(s, value) ==
    IF s.next < N
    THEN {[self |-> [s EXCEPT !.next = N, !.data[s.next] = ValueCell(value)],
           ret |-> {s.next}, dropped |-> {}]}
    ELSE IF s.high >= N
         THEN {[self |-> s, ret |-> {}, dropped |-> {value}]}
         ELSE {[self |-> [s EXCEPT !.high = s.high + 1,
                                   !.data[s.high] = ValueCell(value)],
                ret |-> {s.high}, dropped |-> {}]}

\* alloc that, reusing a slot, leaves the chain's head on it.
alloc_keep_head(s, value) ==
    IF s.next < N
    THEN {[self |-> [s EXCEPT !.data[s.next] = ValueCell(value)],
           ret |-> {s.next}, dropped |-> {}]}
    ELSE IF s.high >= N
         THEN {[self |-> s, ret |-> {}, dropped |-> {value}]}
         ELSE {[self |-> [s EXCEPT !.high = s.high + 1,
                                   !.data[s.high] = ValueCell(value)],
                ret |-> {s.high}, dropped |-> {}]}

\* alloc with `self.high > N` for `self.high >= N`.
alloc_off_by_one(s, value) ==
    IF s.next < N
    THEN {[self |-> [s EXCEPT !.next = n, !.data[s.next] = ValueCell(value)],
           ret |-> {s.next}, dropped |-> {}] : n \in ReadNext(s.data[s.next])}
    ELSE IF s.high > N
         THEN {[self |-> s, ret |-> {}, dropped |-> {value}]}
         ELSE {[self |-> [s EXCEPT !.high = s.high + 1,
                                   !.data[s.high] = ValueCell(value)],
                ret |-> {s.high}, dropped |-> {}]}

\* alloc that forgets the value when the list is full (mem::forget).
alloc_leak(s, value) ==
    IF s.next < N
    THEN {[self |-> [s EXCEPT !.next = n, !.data[s.next] = ValueCell(value)],
           ret |-> {s.next}, dropped |-> {}] : n \in ReadNext(s.data[s.next])}
    ELSE IF s.high >= N
         THEN {[self |-> s, ret |-> {}, dropped |-> {}]}
         ELSE {[self |-> [s EXCEPT !.high = s.high + 1,
                                   !.data[s.high] = ValueCell(value)],
                ret |-> {s.high}, dropped |-> {}]}

\* alloc that takes a fresh slot while there is one, and the chain after.
alloc_fresh_first(s, value) ==
    IF s.high < N
    THEN {[self |-> [s EXCEPT !.high = s.high + 1,
                              !.data[s.high] = ValueCell(value)],
           ret |-> {s.high}, dropped |-> {}]}
    ELSE IF s.next < N
         THEN {[self |-> [s EXCEPT !.next = n, !.data[s.next] = ValueCell(value)],
                ret |-> {s.next}, dropped |-> {}] : n \in ReadNext(s.data[s.next])}
         ELSE {[self |-> s, ret |-> {}, dropped |-> {value}]}

\* alloc that stores the value in a fresh slot only, leaving a reused slot
\* as it was.
alloc_no_write(s, value) ==
    IF s.next < N
    THEN {[self |-> [s EXCEPT !.next = n],
           ret |-> {s.next}, dropped |-> {}] : n \in ReadNext(s.data[s.next])}
    ELSE IF s.high >= N
         THEN {[self |-> s, ret |-> {}, dropped |-> {value}]}
         ELSE {[self |-> [s EXCEPT !.high = s.high + 1,
                                   !.data[s.high] = ValueCell(value)],
                ret |-> {s.high}, dropped |-> {}]}

\* FixedFreeList::alloc: the possible outcomes [self, ret, dropped]; ret is
\* {key} for Some(key) and {} for None, dropped the values it tears down.
alloc(s, value) ==
    IF s.next < N
    THEN {[self |-> [s EXCEPT !.next = n, !.data[s.next] = ValueCell(value)],
           ret |-> {s.next}, dropped |-> {}] : n \in ReadNext(s.data[s.next])}
    ELSE IF s.high >= N
         THEN {[self |-> s, ret |-> {}, dropped |-> {value}]}
         ELSE {[self |-> [s EXCEPT !.high = s.high + 1,
                                   !.data[s.high] = ValueCell(value)],
                ret |-> {s.high}, dropped |-> {}]}

\* is_free that compares the key with the chain's head only.
is_free_head_only(s, key) ==
    IF key >= s.high THEN TRUE ELSE key = s.next

\* FixedFreeList::is_free
is_free(s, key) ==
    IF key >= s.high THEN TRUE ELSE key \in Range(FreeChain(s))

\* free_unchecked that writes the freed slot's own index as its link.
free_self_link(s, key) ==
    {[self |-> [s EXCEPT !.data[key] = NextCell(key), !.next = key],
      ret |-> {v}] : v \in ReadValue(s.data[key])}

\* free_unchecked that links the slot but never makes it the chain's head.
free_no_head(s, key) ==
    {[self |-> [s EXCEPT !.data[key] = NextCell(s.next)],
      ret |-> {v}] : v \in ReadValue(s.data[key])}

\* free_unchecked that also lowers high when the topmost slot is freed.
free_shrink(s, key) ==
    {[self |-> [s EXCEPT !.data[key] = NextCell(s.next), !.next = key,
                         !.high = IF key + 1 = s.high THEN key ELSE s.high],
      ret |-> {v}] : v \in ReadValue(s.data[key])}

\* free_unchecked that leaves a slot holding a link as it is.
free_skip_link(s, key) ==
    IF s.data[key].kind = "next"
    THEN {[self |-> s, ret |-> {0}]}
    ELSE {[self |-> [s EXCEPT !.data[key] = NextCell(s.next), !.next = key],
           ret |-> {v}] : v \in ReadValue(s.data[key])}

\* FixedFreeList::free_unchecked: the possible outcomes [self, ret].
free_unchecked(s, key) ==
    {[self |-> [s EXCEPT !.data[key] = NextCell(s.next), !.next = key],
      ret |-> {v}] : v \in ReadValue(s.data[key])}

\* FixedFreeList::get_unchecked: the values the returned borrow may show.
get_unchecked(s, key) == ReadValue(s.data[key])

\* get_mut_unchecked that borrows slot 0 whatever the key.
get_mut_first(s, key, w) ==
    {[self |-> [s EXCEPT !.data[0] = ValueCell(w)], ret |-> {w},
      dropped |-> {v}] : v \in ReadValue(s.data[0])}

\* FixedFreeList::get_mut_unchecked followed by `*value = w`: the
\* assignment tears down the value in the slot and stores w.
get_mut_unchecked(s, key, w) ==
    {[self |-> [s EXCEPT !.data[key] = ValueCell(w)], ret |-> {w},
      dropped |-> {v}] : v \in ReadValue(s.data[key])}

\* size_hint that counts the slots below high that are not on the chain.
size_hint_exact(s) ==
    Cardinality({i \in 0..(N - 1) : i < s.high /\ i \notin Range(FreeChain(s))})

\* FixedFreeList::size_hint
size_hint(s) == s.high

\* is_full that looks at the high-water mark only.
is_full_high_only(s) == s.high = N

\* FixedFreeList::is_full
is_full(s) == s.high = N /\ s.next = N

\* clear() that drops every slot below high, free or not.
ClearDrops_all(s) ==
    IF needs_drop THEN {i \in 0..(N - 1) : i < s.high} ELSE {}

\* The slots clear() runs ManuallyDrop::drop on: `free[next] = true` along
\* the chain, then every i in 0..N, cut by take(self.high), with !free[i].
ClearDrops(s) ==
    IF needs_drop
    THEN {i \in 0..(N - 1) : i < s.high /\ i \notin Range(FreeChain(s))}
    ELSE {}

\* clear() that resets the chain's head to 0 instead of the sentinel N.
clear_next_zero(s) ==
    LET D == ClearDrops(s)
        reset == [s EXCEPT !.high = 0, !.next = 0]
    IN  IF \A i \in D : s.data[i].kind = "value"
        THEN {[self |-> reset, torn |-> [i \in D |-> s.data[i].value]]}
        ELSE {[self |-> reset, torn |-> f] :
                f \in {g \in [D -> 0..MaxValues] :
                         \A i \in D : g[i] \in ReadValue(s.data[i])}}

\* clear() that resets high and leaves the chain's head where it was.
clear_keep_next(s) ==
    LET D == ClearDrops(s)
        reset == [s EXCEPT !.high = 0]
    IN  IF \A i \in D : s.data[i].kind = "value"
        THEN {[self |-> reset, torn |-> [i \in D |-> s.data[i].value]]}
        ELSE {[self |-> reset, torn |-> f] :
                f \in {g \in [D -> 0..MaxValues] :
                         \A i \in D : g[i] \in ReadValue(s.data[i])}}

\* FixedFreeList::clear: the possible outcomes [self, torn], torn[i] being
\* the value torn down in slot i.
clear(s) ==
    LET D == ClearDrops(s)
        reset == [s EXCEPT !.high = 0, !.next = N]
    IN  IF \A i \in D : s.data[i].kind = "value"
        THEN {[self |-> reset, torn |-> [i \in D |-> s.data[i].value]]}
        ELSE {[self |-> reset, torn |-> f] :
                f \in {g \in [D -> 0..MaxValues] :
                         \A i \in D : g[i] \in ReadValue(s.data[i])}}

\* Drop for FixedFreeList: clear() if T needs teardown, nothing otherwise.
drop(s) ==
    IF needs_drop THEN clear(s)
    ELSE {[self |-> s, torn |-> [i \in {} |-> 0]]}

\* enum Space<T>: what Debug::fmt shows for one slot.
SpaceValue(x) == [tag |-> "Value", x |-> x]

SpaceFree(n) == [tag |-> "Free", x |-> n]

SpaceUninit == [tag |-> "Uninit", x |-> 0]

\* Debug::fmt whose second loop runs over all N slots, without take(high).
fmt_no_take(s) ==
    [next |-> s.next, high |-> s.high,
     data |-> [i \in 0..(N - 1) |->
                 IF i \in Range(FreeChain(s)) THEN SpaceFree(LinkOf(s, i))
                 ELSE SpaceValue(s.data[i].value)]]

\* Debug::fmt: the fields next and high and the array `spaces`: Free(link)
\* for the slots the chain walk visits, Value(data[i].value) for the other
\* slots below high, Uninit for the rest.
fmt(s) ==
    [next |-> s.next, high |-> s.high,
     data |-> [i \in 0..(N - 1) |->
                 IF i \in Range(FreeChain(s)) THEN SpaceFree(LinkOf(s, i))
                 ELSE IF i < s.high THEN SpaceValue(s.data[i].value)
                 ELSE SpaceUninit]]

----------------------------------------------------------------------------
(* Teardown accounting: Drop for DropCounted increments a counter; here     *)
(* each object has its own.  A type without teardown logic runs none.       *)

\* torn is a function slot/tag -> value: tear down each value it names.
TearDown(os, torn) ==
    IF needs_drop
    THEN [v \in DOMAIN os |->
            [os[v] EXCEPT !.torn = @ + Cardinality({i \in DOMAIN torn : torn[i] = v})]]
    ELSE os

One(S) == [i \in {0} |-> CHOOSE v \in S : TRUE]

TearSet(os, S) == IF S = {} THEN os ELSE TearDown(os, One(S))

Call(op, arg, ret, flag, dropped) ==
    [op |-> op, arg |-> arg, ret |-> ret, flag |-> flag, dropped |-> dropped,
     afterFree |-> IF last.op = "free" THEN last.arg ELSE {}]

----------------------------------------------------------------------------
Init ==
    /\ N \in 0..MaxN
    /\ needs_drop \in BOOLEAN
    /\ self = new
    /\ alive = TRUE
    /\ live = [k \in {} |-> 0]
    /\ objs = <<>>
    /\ last = [op |-> "new", arg |-> {}, ret |-> {}, flag |-> FALSE,
               dropped |-> {}, afterFree |-> {}]
    /\ run = [from |-> "new", n |-> 0]
    /\ held = {}

\* list.alloc(value) with a value the caller has just created, the caller
\* creating at most `cap` values.
AllocUpTo(cap) ==
    /\ alive
    /\ Len(objs) < cap
    /\ LET v == Len(objs) + 1
       IN  \E out \in alloc(self, v) :
             /\ self' = out.self
             /\ objs' = TearSet(Append(objs,
                           [how |-> IF out.ret = {} THEN "rejected" ELSE "accepted",
                            torn |-> 0]), out.dropped)
             /\ live' = IF out.ret = {} THEN live
                        ELSE [k \in DOMAIN live \cup out.ret |->
                                IF k \in out.ret THEN v ELSE live[k]]
             /\ last' = Call("alloc", {v}, out.ret, out.ret # {}, out.dropped)
    /\ run' = IF run.from = "none" THEN run ELSE [run EXCEPT !.n = @ + 1]
    /\ UNCHANGED <<held, N, needs_drop, alive>>

Alloc == AllocUpTo(MaxValues)

\* unsafe { list.free_unchecked(key) } on a key the caller holds, the
\* returned value being discarded at once (as in test_drop).
Free ==
    /\ alive
    /\ \E key \in DOMAIN live :
         \E out \in free_unchecked(self, key) :
           /\ self' = out.self
           /\ objs' = TearSet(objs, out.ret)
           /\ live' = [k \in DOMAIN live \ {key} |-> live[k]]
           /\ last' = Call("free", {key}, out.ret, FALSE, out.ret)
    /\ run' = [from |-> "none", n |-> 0]
    /\ UNCHANGED <<held, N, needs_drop, alive>>

\* unsafe { *list.get_unchecked(key) } on a key the caller holds.
Get ==
    /\ alive
    /\ \E key \in DOMAIN live :
         \E v \in get_unchecked(self, key) :
           last' = Call("get", {key}, {v}, FALSE, {})
    /\ UNCHANGED <<held, N, needs_drop, self, alive, live, objs, run>>

\* let value = unsafe { list.get_mut_unchecked(key) }; *value = w; on a key
\* the caller holds, with a value w the caller has just created.
GetMut ==
    /\ alive
    /\ Len(objs) < MaxValues
    /\ LET w == Len(objs) + 1
       IN  \E key \in DOMAIN live :
             \E out \in get_mut_unchecked(self, key, w) :
               /\ self' = out.self
               /\ objs' = TearSet(Append(objs, [how |-> "written", torn |-> 0]),
                                  out.dropped)
               /\ live' = [live EXCEPT ![key] = w]
               /\ last' = Call("get_mut", {key}, out.ret, FALSE, out.dropped)
    /\ run' = [from |-> "none", n |-> 0]
    /\ UNCHANGED <<held, N, needs_drop, alive>>

\* list.is_free(key) for any key, also N, which is no index of the array.
IsFree ==
    /\ alive
    /\ \E key \in 0..N :
         last' = Call("is_free", {key}, {}, is_free(self, key), {})
    /\ UNCHANGED <<held, N, needs_drop, self, alive, live, objs, run>>

\* list.is_full()
IsFull ==
    /\ alive
    /\ last' = Call("is_full", {}, {}, is_full(self), {})
    /\ UNCHANGED <<held, N, needs_drop, self, alive, live, objs, run>>

\* list.size_hint()
SizeHint ==
    /\ alive
    /\ last' = Call("size_hint", {}, {size_hint(self)}, FALSE, {})
    /\ UNCHANGED <<held, N, needs_drop, self, alive, live, objs, run>>

\* list.clear(): every key the caller holds is gone.
Clear ==
    /\ alive
    /\ \E out \in clear(self) :
         /\ self' = out.self
         /\ objs' = TearDown(objs, out.torn)
         /\ last' = Call("clear", {}, {}, FALSE, Range(out.torn))
    /\ live' = [k \in {} |-> 0]
    /\ run' = [from |-> "clear", n |-> 0]
    /\ UNCHANGED <<held, N, needs_drop, alive>>

\* The container goes out of scope: Drop::drop, then the storage is gone.
Drop ==
    /\ alive
    /\ \E out \in drop(self) :
         /\ self' = out.self
         /\ objs' = TearDown(objs, out.torn)
         /\ last' = Call("drop", {}, {}, FALSE, Range(out.torn))
    /\ alive' = FALSE
    /\ live' = [k \in {} |-> 0]
    /\ UNCHANGED <<held, N, needs_drop, run>>

----------------------------------------------------------------------------
\* format!("{:?}", list)
Fmt ==
    /\ alive
    /\ last' = Call("fmt", {}, {fmt(self)}, FALSE, {})
    /\ UNCHANGED <<held, N, needs_drop, self, alive, live, objs, run>>

Next ==
    \/ Alloc
    \/ Free
    \/ Get
    \/ GetMut
    \/ IsFree
    \/ IsFull
    \/ SizeHint
    \/ Clear
    \/ Drop
    \/ Fmt

Spec == Init /\ [][Next]_vars

----------------------------------------------------------------------------
(* test_debug: a FixedFreeList<u32, 8> that is given the values 3, 5, 7,    *)
(* 4, 2.  The i-th value the caller creates carries TestDebugValues[i].     *)

DebugN == 8

TestDebugValues == <<3, 5, 7, 4, 2>>

DebugInit ==
    /\ N \in (0..MaxN) \cup {DebugN}
    /\ needs_drop \in BOOLEAN
    /\ self = new
    /\ alive = TRUE
    /\ live = [k \in {} |-> 0]
    /\ objs = <<>>
    /\ last = [op |-> "new", arg |-> {}, ret |-> {}, flag |-> FALSE,
               dropped |-> {}, afterFree |-> {}]
    /\ run = [from |-> "new", n |-> 0]
    /\ held = {}

DebugNext ==
    \/ AllocUpTo(Len(TestDebugValues))
    \/ Free
    \/ Clear
    \/ Fmt

DebugSpec == DebugInit /\ [][DebugNext]_vars

----------------------------------------------------------------------------
(* SafeFixedFreeList<'a, T, N, U>: the wrapper around one FixedFreeList.    *)
(* alloc<'k> returns an ArenaKey<'k, U>; ArenaKey is neither Clone nor      *)
(* Copy, free takes it by value, get and get_mut borrow it.  'k is bounded  *)
(* by 'a alone, not by the borrow of the list, so a handle stays with the   *)
(* caller across every later call that does not take it by value.           *)

\* SafeFixedFreeList::alloc
SafeAlloc ==
    /\ alive
    /\ Len(objs) < MaxValues
    /\ LET v == Len(objs) + 1
       IN  \E out \in alloc(self, v) :
             /\ self' = out.self
             /\ objs' = TearSet(Append(objs,
                           [how |-> IF out.ret = {} THEN "rejected" ELSE "accepted",
                            torn |-> 0]), out.dropped)
             /\ live' = IF out.ret = {} THEN live
                        ELSE [k \in DOMAIN live \cup out.ret |->
                                IF k \in out.ret THEN v ELSE live[k]]
             /\ held' = held \cup {[index |-> k, value |-> v] : k \in out.ret}
             /\ last' = Call("alloc", {v}, out.ret, out.ret # {}, out.dropped)
    /\ run' = IF run.from = "none" THEN run ELSE [run EXCEPT !.n = @ + 1]
    /\ UNCHANGED <<N, needs_drop, alive>>

\* SafeFixedFreeList::free: takes the handle; the value returned is
\* discarded by the caller.
SafeFree ==
    /\ alive
    /\ \E h \in held :
         \E out \in free_unchecked(self, h.index) :
           /\ self' = out.self
           /\ objs' = TearSet(objs, out.ret)
           /\ live' = [k \in DOMAIN live \ {h.index} |-> live[k]]
           /\ held' = held \ {h}
           /\ last' = Call("free", {h.index}, out.ret, FALSE, out.ret)
    /\ run' = [from |-> "none", n |-> 0]
    /\ UNCHANGED <<N, needs_drop, alive>>

\* SafeFixedFreeList::get
SafeGet ==
    /\ alive
    /\ \E h \in held :
         \E v \in get_unchecked(self, h.index) :
           last' = Call("get", {h.index}, {v}, FALSE, {})
    /\ UNCHANGED <<held, N, needs_drop, self, alive, live, objs, run>>

\* SafeFixedFreeList::get_mut, followed by `*value = w`.
SafeGetMut ==
    /\ alive
    /\ Len(objs) < MaxValues
    /\ LET w == Len(objs) + 1
       IN  \E h \in held :
             \E out \in get_mut_unchecked(self, h.index, w) :
               /\ self' = out.self
               /\ objs' = TearSet(Append(objs, [how |-> "written", torn |-> 0]),
                                  out.dropped)
               /\ live' = IF h.index \in DOMAIN live
                          THEN [live EXCEPT ![h.index] = w] ELSE live
               /\ held' = (held \ {h}) \cup {[h EXCEPT !.value = w]}
               /\ last' = Call("get_mut", {h.index}, out.ret, FALSE, out.dropped)
    /\ run' = [from |-> "none", n |-> 0]
    /\ UNCHANGED <<N, needs_drop, alive>>

\* SafeFixedFreeList::clear: `&mut self` and no handle among its
\* parameters, so the caller keeps every handle.
SafeClear ==
    /\ alive
    /\ \E out \in clear(self) :
         /\ self' = out.self
         /\ objs' = TearDown(objs, out.torn)
         /\ last' = Call("clear", {}, {}, FALSE, Range(out.torn))
    /\ live' = [k \in {} |-> 0]
    /\ run' = [from |-> "clear", n |-> 0]
    /\ UNCHANGED <<held, N, needs_drop, alive>>

\* SafeFixedFreeList::is_full and size_hint pass through to the inner list.
SafeNext ==
    \/ SafeAlloc
    \/ SafeFree
    \/ SafeGet
    \/ SafeGetMut
    \/ SafeClear
    \/ IsFull
    \/ SizeHint

\* SafeFixedFreeList::new
SafeSpec == Init /\ [][SafeNext]_vars

----------------------------------------------------------------------------
(* A caller of the base list who breaks the precondition of free_unchecked: *)
(* a key is a plain usize, so the caller still has the number after the     *)
(* free and can pass it again.  `held` is the caller's ledger: one          *)
(* [index, value] for every key alloc returned and the caller has not       *)
(* passed to free_unchecked since.                                          *)

KeysOf == {h.index : h \in held}

\* The precondition has been kept so far: the chain walk visits pairwise
\* distinct slots that hold links, and every key of the ledger names a slot
\* that holds the value allocated under it.
Intact ==
    LET ch == FreeChain(self)
    IN  /\ \A a, b \in 1..Len(ch) : a # b => ch[a] # ch[b]
        /\ \A a \in 1..Len(ch) : self.data[ch[a]].kind = "next"
        /\ \A h \in held : self.data[h.index] = ValueCell(h.value)

\* let key = list.alloc(value).unwrap(), the caller noting the key.
AllocKey ==
    /\ alive
    /\ Len(objs) < MaxValues
    /\ LET v == Len(objs) + 1
       IN  \E out \in alloc(self, v) :
             /\ self' = out.self
             /\ objs' = TearSet(Append(objs,
                           [how |-> IF out.ret = {} THEN "rejected" ELSE "accepted",
                            torn |-> 0]), out.dropped)
             /\ live' = IF out.ret = {} THEN live
                        ELSE [k \in DOMAIN live \cup out.ret |->
                                IF k \in out.ret THEN v ELSE live[k]]
             /\ held' = held \cup {[index |-> k, value |-> v] : k \in out.ret}
             /\ last' = Call("alloc", {v}, out.ret, out.ret # {}, out.dropped)
    /\ run' = IF run.from = "none" THEN run ELSE [run EXCEPT !.n = @ + 1]
    /\ UNCHANGED <<N, needs_drop, alive>>

\* unsafe { list.free_unchecked(key) } on a key of the ledger.
FreeKey ==
    /\ alive
    /\ \E h \in held :
         \E out \in free_unchecked(self, h.index) :
           /\ self' = out.self
           /\ objs' = TearSet(objs, out.ret)
           /\ live' = [k \in DOMAIN live \ {h.index} |-> live[k]]
           /\ held' = held \ {h}
           /\ last' = Call("free", {h.index}, out.ret, FALSE, out.ret)
    /\ run' = [from |-> "none", n |-> 0]
    /\ UNCHANGED <<N, needs_drop, alive>>

\* The caller's first breach of the precondition:
\* unsafe { list.free_unchecked(key) } once more, on a key that is no
\* longer in the ledger and that the chain walk from `next` visits.  The
\* default build has no `strict` feature: the assert on is_free is compiled
\* out and the call runs as any other.
DoubleFree ==
    /\ alive
    /\ Intact
    /\ \E key \in Range(FreeChain(self)) \ KeysOf :
         \E out \in free_unchecked(self, key) :
           /\ self' = out.self
           /\ objs' = TearSet(objs, out.ret)
           /\ live' = [k \in DOMAIN live \ {key} |-> live[k]]
           /\ last' = Call("double_free", {key}, out.ret, FALSE, out.ret)
    /\ run' = [from |-> "double_free", n |-> 0]
    /\ UNCHANGED <<held, N, needs_drop, alive>>

DoubleFreeNext ==
    \/ AllocKey
    \/ FreeKey
    \/ DoubleFree

DoubleFreeSpec == Init /\ [][DoubleFreeNext]_vars

----------------------------------------------------------------------------
(* Properties.                                                              *)

\* The number of teardowns value v has seen is what its type allows: one if
\* T has teardown logic, none otherwise.
TornOnce(os, v) == os[v].torn = (IF needs_drop THEN 1 ELSE 0)

\* C1 - capacity (P1): on a newly constructed container of capacity N that
\* has only seen alloc calls (and queries), the n-th alloc (n = 1..N)
\* returns Some(n - 1), is_full() is true exactly from the N-th alloc on,
\* and the (N+1)-th alloc returns None.
C1_Capacity ==
    (alive /\ run.from = "new") =>
        /\ is_full(self) <=> run.n >= N
        /\ last.op = "alloc" =>
             /\ run.n <= N => last.ret = {run.n - 1}
             /\ run.n = N + 1 => last.ret = {}

C1_Witness ==
    /\ alive /\ run.from = "new" /\ N >= 2
    /\ last.op = "alloc" /\ run.n = N + 1
    /\ last.ret = {} /\ is_full(self)

\* C2 - alloc on a full container returns None, tears the offered value
\* down exactly once, stores it nowhere, and leaves free_head, high_water,
\* the live keys and every stored value as they were.
C2_AllocWhenFull ==
    [][(last'.op = "alloc" /\ is_full(self)) =>
         LET v == Len(objs')
         IN  /\ last'.ret = {}
             /\ last'.arg = {v}
             /\ last'.dropped = {v}
             /\ TornOnce(objs', v)
             /\ \A u \in 1..Len(objs) : objs'[u] = objs[u]
             /\ self' = self
             /\ live' = live
             /\ v \notin Range(live')
             /\ \A i \in DOMAIN self'.data : self'.data[i] # ValueCell(v)]_vars

C2_Witness ==
    /\ alive /\ N >= 2 /\ needs_drop
    /\ last.op = "alloc" /\ last.ret = {}
    /\ objs[Len(objs)].how = "rejected" /\ objs[Len(objs)].torn = 1
    /\ Cardinality(DOMAIN live) = N
    /\ \A k \in DOMAIN live : objs[live[k]].torn = 0

\* C3 - LIFO reuse (P2): an alloc that directly follows free(K) returns
\* Some(K) and leaves high_water alone, and no alloc hands out an index at
\* or above high_water while the free chain is non-empty.
C3_LifoReuse ==
    [][last'.op = "alloc" =>
         /\ last.op = "free" =>
              /\ last'.ret = last.arg
              /\ self'.high = self.high
         /\ FreeChain(self) # <<>> =>
              /\ last'.ret # {}
              /\ \A k \in last'.ret : k < self.high /\ k = self.next]_vars

C3_Witness ==
    /\ alive
    /\ last.op = "alloc" /\ last.afterFree # {}
    /\ last.ret = last.afterFree
    /\ self.high < N
    /\ FreeChain(self) # <<>>

\* C4 - round trip (P3): in a non-full state alloc(v) returns Some(k), and
\* get(k) read right after it shows exactly v, for a slot popped from the
\* free chain as for a fresh one.
C4_RoundTrip ==
    [][(last'.op = "alloc" /\ ~is_full(self)) =>
         /\ last'.ret # {}
         /\ \A k \in last'.ret : get_unchecked(self', k) = last'.arg]_vars

\* A reused slot, which held a next link, now shows the value.
C4_Witness ==
    /\ alive
    /\ last.op = "alloc" /\ last.afterFree # {} /\ last.ret = last.afterFree
    /\ \A k \in last.ret : get_unchecked(self, k) = last.arg /\ k + 1 < self.high

\* C5 - free(k) on a live key returns the value last stored at k (given to
\* the alloc that returned k, or written through get_mut(k) since), and
\* leaves slot k Free with next = the previous free_head, free_head = k and
\* is_free(k) true.
C5_FreeReturnsValue ==
    [][last'.op = "free" =>
         \A k \in last'.arg :
           /\ k \in DOMAIN live
           /\ last'.ret = {live[k]}
           /\ self'.data[k] = NextCell(self.next)
           /\ self'.next = k
           /\ is_free(self', k)]_vars

\* The value freed was written through get_mut, and the slot is linked in
\* front of an earlier free slot.
C5_Witness ==
    /\ alive
    /\ last.op = "free"
    /\ \A v \in last.ret : v \in 1..Len(objs) /\ objs[v].how = "written"
    /\ \A k \in last.arg : self.next = k /\ LinkOf(self, k) < N /\ is_free(self, k)

TotalTorn(os) == LET RECURSIVE Sum(_)
                     Sum(n) == IF n = 0 THEN 0 ELSE os[n].torn + Sum(n - 1)
                 IN  Sum(Len(os))

Made(os, how) == Cardinality({v \in 1..Len(os) : os[v].how = how})

\* C6 as claimed: after clear() or destruction, with a T that has teardown
\* logic, a capacity of at least 1 and no write through get_mut, the number
\* of teardowns equals the number of values alloc accepted.
C6_TeardownsEqualAccepted ==
    (last.op \in {"clear", "drop"} /\ needs_drop /\ N >= 1
        /\ Made(objs, "written") = 0) =>
        TotalTorn(objs) = Made(objs, "accepted")

\* C6, amended - teardown counting (P4): clear() and destruction tear down
\* exactly the values live at that moment, each once; no value is ever torn
\* down twice and no live value is torn down; afterwards every value made
\* has been torn down once, so the teardowns number the values alloc
\* accepted plus those it rejected (plus those written through get_mut).
C6_TeardownCounting ==
    [][needs_drop =>
         /\ \A v \in 1..Len(objs') : objs'[v].torn <= 1
         /\ \A k \in DOMAIN live' : objs'[live'[k]].torn = 0
         /\ last'.op \in {"clear", "drop"} =>
              /\ last'.dropped = Range(live)
              /\ \A v \in 1..Len(objs) :
                   objs'[v].torn = objs[v].torn + (IF v \in Range(live) THEN 1 ELSE 0)
              /\ \A v \in 1..Len(objs') : objs'[v].torn = 1
              /\ TotalTorn(objs') = Made(objs', "accepted") + Made(objs', "rejected")
                                      + Made(objs', "written")]_vars

\* Destruction after allocs, a rejected alloc and a free: some values were
\* torn down by the container just now, others before.
C6_Witness ==
    /\ ~alive /\ needs_drop
    /\ last.op = "drop" /\ last.dropped # {}
    /\ Made(objs, "rejected") >= 1
    /\ Made(objs, "written") = 0
    /\ TotalTorn(objs) = Len(objs)
    /\ \E v \in 1..Len(objs) : objs[v].how = "accepted" /\ v \notin last.dropped

\* The container after n allocs on a newly constructed one, with the last
\* alloc's result.
RECURSIVE AllocsOnNew(_)
AllocsOnNew(n) ==
    IF n = 0 THEN [self |-> new, ret |-> {}, dropped |-> {}]
    ELSE CHOOSE out \in alloc(AllocsOnNew(n - 1).self, n) : TRUE

\* C7 - clear from any state: after clear(), size_hint() = 0, free_head = N
\* with an empty chain, is_free(k) for every key k and no key live; the
\* allocs that follow return 0, 1, 2, ... and move free_head and high_water
\* exactly as on a newly constructed container.
C7_ClearResets ==
    [][/\ last'.op = "clear" =>
            /\ size_hint(self') = 0
            /\ self'.next = N
            /\ FreeChain(self') = <<>>
            /\ \A k \in 0..(N + 1) : is_free(self', k)
            /\ DOMAIN live' = {}
       /\ (last'.op = "alloc" /\ run'.from = "clear") =>
            /\ run'.n <= N => last'.ret = {run'.n - 1}
            /\ last'.ret = AllocsOnNew(run'.n).ret
            /\ self'.next = AllocsOnNew(run'.n).self.next
            /\ self'.high = AllocsOnNew(run'.n).self.high
            /\ is_full(self') <=> is_full(AllocsOnNew(run'.n).self)]_vars

\* The first alloc after a clear() that wiped a non-empty free chain (its
\* link is still in a cell above high) returns key 0, not the old head.
C7_Witness ==
    /\ alive
    /\ run.from = "clear" /\ run.n = 1
    /\ last.op = "alloc" /\ last.ret = {0}
    /\ \E i \in DOMAIN self.data : i >= self.high /\ self.data[i].kind = "next"

\* C8 - is_full() is true iff high_water = N and the free chain is empty,
\* iff the number of live values is N, iff an alloc issued now would
\* return None.
C8_IsFullMeaning ==
    alive =>
        /\ is_full(self) <=> (self.high = N /\ FreeChain(self) = <<>>)
        /\ is_full(self) <=> Cardinality(DOMAIN live) = N
        /\ \A v \in 1..MaxValues :
             is_full(self) <=> (\A out \in alloc(self, v) : out.ret = {})

\* Full again after a free and a reuse of the freed slot.
C8_Witness ==
    /\ alive /\ N >= 2
    /\ is_full(self)
    /\ last.op = "alloc" /\ last.afterFree # {} /\ last.ret = last.afterFree

\* C9 - size_hint() is an upper bound: live values <= size_hint() <= N,
\* and the difference is the number of slots on the free chain.
C9_SizeHintUpperBound ==
    alive =>
        /\ Cardinality(DOMAIN live) <= size_hint(self)
        /\ size_hint(self) <= N
        /\ size_hint(self) - Cardinality(DOMAIN live) = Len(FreeChain(self))

\* A strict bound: two slots on the chain, one value live.
C9_Witness ==
    /\ alive
    /\ Len(FreeChain(self)) = 2
    /\ Cardinality(DOMAIN live) = 1
    /\ size_hint(self) = 3

\* C10 - size_hint monotonicity (P5): no alloc, free, get, get_mut, is_free
\* or is_full step lowers size_hint(); a free and the alloc that reuses the
\* slot leave it unchanged; only clear() lowers it, and then it is 0.
C10_SizeHintMonotone ==
    [][/\ last'.op \in {"alloc", "free", "get", "get_mut", "is_free", "is_full",
                        "size_hint"} => size_hint(self') >= size_hint(self)
       /\ last'.op = "free" => size_hint(self') = size_hint(self)
       /\ (last'.op = "alloc" /\ last.op = "free") => size_hint(self') = size_hint(self)
       /\ (alive' /\ size_hint(self') < size_hint(self)) => last'.op = "clear"
       /\ last'.op = "clear" => size_hint(self') = 0]_vars

\* clear() has just lowered size_hint() to 0: cells written before it are
\* still there.
C10_Witness ==
    /\ alive
    /\ last.op = "clear"
    /\ size_hint(self) = 0
    /\ \E i \in DOMAIN self.data : self.data[i].kind = "value"

\* The container is empty as the claim means it: newly constructed or just
\* cleared, with no alloc since.
AlreadyEmpty == run.from \in {"new", "clear"} /\ run.n = 0

\* C11 as claimed: for every capacity N, clear() on an already-empty
\* container leaves the state unchanged, and then is_full() is false and
\* size_hint() is 0.
C11_ClearNoOpNotFull ==
    [][(last'.op = "clear" /\ AlreadyEmpty) =>
         /\ self' = self
         /\ ~is_full(self')
         /\ size_hint(self') = 0]_vars

\* C11, amended - clear idempotence (P6): clear() on an already-empty
\* container changes nothing (struct, values, teardown counts), and then
\* size_hint() is 0 and is_full() is false for every capacity N >= 1; for
\* N = 0 is_full() is true, before and after.
C11_ClearIdempotent ==
    [][(last'.op = "clear" /\ AlreadyEmpty) =>
         /\ self' = self
         /\ objs' = objs
         /\ live' = live
         /\ last'.dropped = {}
         /\ size_hint(self') = 0
         /\ is_full(self') <=> N = 0
         /\ is_full(self') <=> is_full(self)]_vars

\* clear() was the last call on a container that never held a value.
C11_Witness ==
    /\ alive /\ N >= 1
    /\ last.op = "clear" /\ objs = <<>>
    /\ self = new
    /\ ~is_full(self) /\ size_hint(self) = 0

\* C12 - is_free(k) is true iff k is not live, i.e. iff k >= high_water or
\* k is on the free chain, for every key k, also k >= N; it is false
\* exactly for the keys alloc returned that were not freed or cleared since.
C12_IsFreeCorrect ==
    alive =>
        /\ \A k \in 0..(N + 1) :
             /\ is_free(self, k) <=> k \notin DOMAIN live
             /\ is_free(self, k) <=> (k >= self.high \/ k \in Range(FreeChain(self)))
        /\ last.op = "is_free" =>
             \A k \in last.arg : last.flag <=> k \notin DOMAIN live

\* is_free found a key behind the head of the chain, with another key live.
C12_Witness ==
    /\ alive
    /\ last.op = "is_free" /\ last.flag
    /\ \A k \in last.arg : k < self.high /\ k # self.next
    /\ DOMAIN live # {}

\* Where the walk `while next < N { next = data[next].next }` stands after
\* at most `fuel` link steps from n.
RECURSIVE WalkEnd(_, _, _)
WalkEnd(s, n, fuel) ==
    IF n >= N \/ fuel = 0 THEN n ELSE WalkEnd(s, LinkOf(s, n), fuel - 1)

\* Every cell the walk reads holds a link, so the read is defined.
WalkReadsLinks(s) == \A i \in Range(FreeChain(s)) : s.data[i].kind = "next"

\* C13 - every operation completes: the free-chain walk of is_free, clear
\* and the debug dump reads links only and stands at the sentinel N after
\* at most high_water <= N link steps (the other operations have no loop).
C13_WalkTerminates ==
    alive =>
        /\ self.high <= N
        /\ WalkReadsLinks(self)
        /\ WalkEnd(self, self.next, self.high) = N

\* The longest walk: every slot below high is on the chain, and one step
\* fewer does not reach the sentinel.
C13_Witness ==
    /\ alive
    /\ self.high >= 2
    /\ Len(FreeChain(self)) = self.high
    /\ WalkEnd(self, self.next, self.high - 1) < N
    /\ WalkEnd(self, self.next, self.high) = N

\* Slot i holds a value the caller allocated and has not freed.
Occupied(i) == i \in DOMAIN live /\ self.data[i] = ValueCell(live[i])

OnChain(i) == i \in Range(FreeChain(self))

\* C14 - invariant I1 (slot partition): every index below high_water is
\* Occupied or on the free chain, never both; every index in
\* [high_water, N) is neither Occupied nor on the free chain.
C14_SlotPartition ==
    alive =>
        /\ self.high \in 0..N
        /\ \A i \in 0..(N - 1) :
             /\ i < self.high => (Occupied(i) <=> ~OnChain(i))
             /\ i < self.high => (i \in DOMAIN live <=> ~OnChain(i))
             /\ i >= self.high => (~Occupied(i) /\ i \notin DOMAIN live /\ ~OnChain(i))

\* Occupied slots, a free slot and untouched slots at once.
C14_Witness ==
    /\ alive
    /\ \E i \in 0..(N - 1) : i < self.high /\ Occupied(i)
    /\ \E i \in 0..(N - 1) : i < self.high /\ OnChain(i) /\ ~Occupied(i)
    /\ self.high < N

\* C15 - invariants I2/I3 (free chain well-formed): free_head is N or an
\* index below high_water; the links from free_head visit pairwise distinct
\* indices below high_water, each holding a link, and end at N; and
\* free_head = N exactly when the chain is empty.
C15_ChainWellFormed ==
    alive =>
        LET ch == FreeChain(self)
        IN  /\ self.next = N \/ self.next < self.high
            /\ \A a, b \in 1..Len(ch) : a # b => ch[a] # ch[b]
            /\ \A a \in 1..Len(ch) : ch[a] < self.high
            /\ WalkReadsLinks(self)
            /\ \A a \in 1..Len(ch) :
                 self.data[ch[a]].next = (IF a < Len(ch) THEN ch[a + 1] ELSE N)
            /\ WalkEnd(self, self.next, N + 1) = N
            /\ self.next = N <=> ch = <<>>

\* A chain of two whose order differs from the index order.
C15_Witness ==
    /\ alive
    /\ Len(FreeChain(self)) = 2
    /\ FreeChain(self)[1] < FreeChain(self)[2]
    /\ DOMAIN live # {}

(* The abstract allocator of C16: a map from live keys to values, a stack   *)
(* of freed keys (top first) and a fresh-index counter.                     *)

AbsNew == [map |-> [k \in {} |-> 0], stack |-> <<>>, fresh |-> 0]

AbsPut(m, k, v) == [j \in DOMAIN m \cup {k} |-> IF j = k THEN v ELSE m[j]]

AbsAlloc(a, v) ==
    IF a.stack # <<>>
    THEN [abs |-> [a EXCEPT !.stack = Tail(a.stack),
                            !.map = AbsPut(a.map, Head(a.stack), v)],
          ret |-> {Head(a.stack)}]
    ELSE IF a.fresh < N
         THEN [abs |-> [a EXCEPT !.fresh = a.fresh + 1,
                                 !.map = AbsPut(a.map, a.fresh, v)],
               ret |-> {a.fresh}]
         ELSE [abs |-> a, ret |-> {}]

AbsFree(a, k) ==
    [abs |-> [a EXCEPT !.stack = <<k>> \o a.stack,
                       !.map = [j \in DOMAIN a.map \ {k} |-> a.map[j]]],
     ret |-> {a.map[k]}]

AbsWrite(a, k, w) == [a EXCEPT !.map = AbsPut(a.map, k, w)]

\* What a container state stands for in the abstract allocator.
Abs(s) ==
    [map |-> [k \in {i \in 0..(N - 1) : i < s.high /\ i \notin Range(FreeChain(s))}
                |-> s.data[k].value],
     stack |-> FreeChain(s),
     fresh |-> s.high]

\* The container after n more allocs from s, with the last alloc's result.
RECURSIVE AllocsFrom(_, _)
AllocsFrom(s, n) ==
    IF n = 0 THEN [self |-> s, ret |-> {}, dropped |-> {}]
    ELSE CHOOSE out \in alloc(AllocsFrom(s, n - 1).self, 0) : TRUE

\* Every step of the container is the same step of the abstract allocator,
\* with the same result.
AbsStep ==
    /\ last'.op = "alloc" =>
         \A v \in last'.arg :
           /\ Abs(self') = AbsAlloc(Abs(self), v).abs
           /\ last'.ret = AbsAlloc(Abs(self), v).ret
    /\ last'.op = "free" =>
         \A k \in last'.arg :
           /\ Abs(self') = AbsFree(Abs(self), k).abs
           /\ last'.ret = AbsFree(Abs(self), k).ret
    /\ last'.op = "get_mut" =>
         \A k \in last'.arg : \A w \in last'.ret :
           Abs(self') = AbsWrite(Abs(self), k, w)
    /\ (last'.op = "clear" /\ alive') => Abs(self') = AbsNew
    /\ last'.op \in {"get", "is_free", "is_full", "size_hint"} =>
         Abs(self') = Abs(self)
    /\ last'.op = "get" => \A k \in last'.arg : last'.ret = {Abs(self).map[k]}

\* With m keys on the chain, the next m allocs return them top first and
\* leave high alone; the (m+1)-th takes the index high and increments it.
ChainThenFresh ==
    LET ch == FreeChain(self)
        m == Len(ch)
    IN  /\ \A j \in 1..m :
             /\ AllocsFrom(self, j).ret = {ch[j]}
             /\ AllocsFrom(self, j).self.high = self.high
        /\ self.high < N =>
             /\ AllocsFrom(self, m + 1).ret = {self.high}
             /\ AllocsFrom(self, m + 1).self.high = self.high + 1
        /\ self.high >= N => AllocsFrom(self, m + 1).ret = {}

\* C16 - the allocator refines the abstract allocator (map of live keys,
\* stack of freed keys, fresh-index counter): it starts as the abstract one
\* does, every alloc, free, get_mut write and clear is the abstract step
\* with the same key or value returned, the map is the caller's view of
\* the live keys, and m keys on the chain are handed out by the next m
\* allocs, last freed first, before the fresh index high_water is taken.
C16_RefinesAbstract ==
    /\ Abs(self) = AbsNew
    /\ [][AbsStep]_vars
    /\ [](alive => (Abs(self).map = live /\ ChainThenFresh))

\* The second of two allocs that emptied a chain of two: it returned the
\* key freed first.
C16_Witness ==
    /\ alive
    /\ run.from = "none"
    /\ last.op = "alloc" /\ last.afterFree = {}
    /\ \A k \in last.ret : k + 1 < self.high
    /\ last.ret # {}
    /\ FreeChain(self) = <<>>

\* C17 - key uniqueness: every key a successful alloc returns lies in
\* [0, N) and is not live when it is returned (its slot is free or
\* untouched), so distinct live values never share a key: the live keys
\* hold pairwise distinct values, each in its own slot.
C17_KeyUniqueness ==
    [][/\ (last'.op = "alloc" /\ last'.ret # {}) =>
            \A k \in last'.ret :
              /\ k \in 0..(N - 1)
              /\ k \notin DOMAIN live
              /\ is_free(self, k)
              /\ self.data[k].kind # "value" \/ k >= self.high
              /\ Cardinality(DOMAIN live') = Cardinality(DOMAIN live) + 1
       /\ alive' =>
            /\ \A j, k \in DOMAIN live' : j # k => live'[j] # live'[k]
            /\ \A k \in DOMAIN live' : get_unchecked(self', k) = {live'[k]}]_vars

\* A reused key handed out while other keys are live.
C17_Witness ==
    /\ alive
    /\ last.op = "alloc" /\ last.ret # {}
    /\ \A k \in last.ret : k + 1 < self.high
    /\ Cardinality(DOMAIN live) >= 2
    /\ \A j, k \in DOMAIN live : j # k => live[j] # live[k]

\* C18 - frame: alloc, free(k) and a write through get_mut(k) leave every
\* other live key live with the value get reads unchanged; get, is_free,
\* size_hint and is_full change nothing of the container or its values.
C18_Frame ==
    [][/\ last'.op \in {"alloc", "free", "get_mut"} =>
            LET k == IF last'.op = "alloc" THEN last'.ret ELSE last'.arg
            IN  \A j \in DOMAIN live \ k :
                  /\ j \in DOMAIN live'
                  /\ live'[j] = live[j]
                  /\ ~is_free(self', j)
                  /\ get_unchecked(self', j) = get_unchecked(self, j)
                  /\ objs'[live[j]] = objs[live[j]]
       /\ last'.op \in {"get", "is_free", "size_hint", "is_full"} =>
            /\ self' = self
            /\ live' = live
            /\ objs' = objs]_vars

\* A write through get_mut with another key live and untouched.
C18_Witness ==
    /\ alive
    /\ last.op = "get_mut"
    /\ Cardinality(DOMAIN live) >= 2
    /\ \A k \in last.arg : k >= 1 /\ live[k] = Len(objs)
    /\ \A j \in DOMAIN live : get_unchecked(self, j) = {live[j]}

\* The dump as test_debug prints it: each Value(v) shows the u32 carried.
Printed(d) ==
    [d EXCEPT !.data = [i \in DOMAIN d.data |->
                          IF d.data[i].tag = "Value"
                          THEN SpaceValue(TestDebugValues[d.data[i].x])
                          ELSE d.data[i]]]

\* test_debug's state: capacity 8, values 1..5 allocated at keys 0..4, keys
\* 1 and then 4 freed.
TestDebugState ==
    /\ alive /\ N = DebugN
    /\ Len(objs) = 5
    /\ \A v \in 1..5 : objs[v].how = "accepted"
    /\ live = [k \in {0, 2, 3} |-> k + 1]
    /\ FreeChain(self) = <<4, 1>>

\* "FixedFreeList { next: 4, high: 5, data: [Value(3), Free(8), Value(7),
\* Value(4), Free(1), Uninit, Uninit, Uninit] }"
TestDebugDump ==
    [next |-> 4, high |-> 5,
     data |-> [i \in 0..7 |->
                 CASE i = 0 -> SpaceValue(3)
                   [] i = 1 -> SpaceFree(8)
                   [] i = 2 -> SpaceValue(7)
                   [] i = 3 -> SpaceValue(4)
                   [] i = 4 -> SpaceFree(1)
                   [] OTHER -> SpaceUninit]]

\* C19 - debug dump classification: the dump shows free_head and
\* high_water and, for each slot i, Value(x) if i is live with x its value,
\* Free(n) if i is on the free chain with n its link (N for the last),
\* Uninit if i >= high_water; and test_debug's state prints as next 4,
\* high 5, [Value(3), Free(8), Value(7), Value(4), Free(1), Uninit x 3].
C19_DebugDump ==
    alive =>
        LET d == fmt(self)
            ch == FreeChain(self)
        IN  /\ d.next = self.next
            /\ d.high = self.high
            /\ DOMAIN d.data = 0..(N - 1)
            /\ \A i \in DOMAIN live : d.data[i] = SpaceValue(live[i])
            /\ \A a \in 1..Len(ch) :
                 d.data[ch[a]] = SpaceFree(IF a < Len(ch) THEN ch[a + 1] ELSE N)
            /\ \A i \in 0..(N - 1) : i >= self.high => d.data[i] = SpaceUninit
            /\ \A i \in 0..(N - 1) :
                 \/ i \in DOMAIN live
                 \/ i \in Range(ch)
                 \/ i >= self.high
            /\ last.op = "fmt" => last.ret = {d}
            /\ TestDebugState => Printed(d) = TestDebugDump

\* test_debug's dump has just been made.
C19_Witness ==
    /\ TestDebugState
    /\ last.op = "fmt"
    /\ \A d \in last.ret : Printed(d) = TestDebugDump

\* C20 - Safety Wrapper handle validity: every handle the caller of a
\* SafeFixedFreeList holds names a slot that is Occupied by the value
\* allocated under the handle (or its latest get_mut update), so free, get
\* and get_mut never read a Free or Uninitialized slot.
C20_HandlesValid ==
    alive =>
        /\ \A h \in held :
             /\ h.index \in DOMAIN live
             /\ live[h.index] = h.value
             /\ self.data[h.index] = ValueCell(h.value)
             /\ ~is_free(self, h.index)
        /\ last.op \in {"free", "get", "get_mut"} =>
             \A v \in last.ret : v \in 1..Len(objs)

\* The chain walk from `next` comes back to an index it has visited.
Cyclic(s) ==
    LET ch == FreeChain(s)
    IN  \E a, b \in 1..Len(ch) : a # b /\ ch[a] = ch[b]

\* Two values the caller counts as live under one key.
Aliased == \E a, b \in held : a.index = b.index /\ a.value # b.value

\* The chain walk leads to a slot the caller counts as live.
ChainHitsLive == Range(FreeChain(self)) \cap KeysOf # {}

\* C21 - double free: in the default build free_unchecked on a key that is
\* already on the free chain runs as any other call (it returns something,
\* makes the key the chain's head and leaves the caller's keys alone) and,
\* the precondition having been kept until then, leaves the chain cyclic,
\* so I2 is broken.  While only allocs follow,
\* the chain stays cyclic or leads to a live slot, every alloc hands out
\* the chain's head without touching high, the alloc whose head is a live
\* key gives that key to a second value, and this has happened after at
\* most N + 1 allocs.
C21_DoubleFreeCorrupts ==
    /\ [][last'.op = "double_free" =>
            /\ last'.ret # {}
            /\ self'.next \in last'.arg
            /\ self'.high = self.high
            /\ held' = held
            /\ Cyclic(self')]_vars
    /\ [](run.from = "double_free" => (Aliased \/ Cyclic(self) \/ ChainHitsLive))
    /\ [][(run.from = "double_free" /\ ~Aliased /\ last'.op = "alloc") =>
            /\ self.next < N
            /\ last'.ret = {self.next}
            /\ self'.high = self.high
            /\ (self.next \in KeysOf <=> Aliased')]_vars
    /\ [](run.from = "double_free" /\ run.n > N => Aliased)

\* A double free, then two allocs: the second was given the key the first
\* had been given, and the slot stores the second value only.
C21_Witness ==
    /\ N >= 2
    /\ run = [from |-> "double_free", n |-> 2]
    /\ last.op = "alloc"
    /\ \E a, b \in held :
         /\ a.index = b.index
         /\ a.value # b.value
         /\ a.index \in last.ret
         /\ b.value \in last.arg
         /\ self.data[a.index] = ValueCell(b.value)

====
